---- MODULE Spec2Model ----
(***************************************************************************)
(* Model of the lead-submission form (LandingPage) and of the demo         *)
(* authentication handlers (AuthPage, DashboardPage) of src/App.tsx.       *)
(*                                                                         *)
(* Strings whose characters matter (names, emails, phones, passwords) are  *)
(* sequences of one-character strings, so that length, trim and            *)
(* toLowerCase are computed, not assumed.                                  *)
(***************************************************************************)
EXTENDS Integers, Sequences, FiniteSets, TLC

\* ------------------------------------------------------------------------
\* Bounds of the model
\* ------------------------------------------------------------------------
MaxCalls == 2          \* submit attempts (handleSubmit invocations) explored
MaxTime == 2000        \* last instant of the clock, in milliseconds
TickMs == 500          \* granularity of the clock
MaxTabAppends == 2     \* submits per browser tab
MaxAuthCalls == 3      \* handleSubmitAuth invocations explored

\* ------------------------------------------------------------------------
\* Program constants
\* ------------------------------------------------------------------------
DownloadDelay == 1000  \* setTimeout(..., 1000) in completeLeadSubmission
MinNameLen == 2        \* z.string().min(2)
MinPhoneLen == 10      \* z.string().min(10)
MinTldLen == 2         \* final label of an email domain
MinAuthNameLen == 2    \* fullName.trim().length < 2
SourceTag == "website-form"

None == "null"

\* ------------------------------------------------------------------------
\* Characters and string helpers
\* ------------------------------------------------------------------------
LowerChars == {"a", "n", "x", "c", "o", "m", "p", "w"}
UpperChars == {"A", "N", "X", "C", "O", "M", "P", "W"}
DigitChars == {"6", "7", "8", "9", "1"}
Whitespace == {" "}

\* String.prototype.toLowerCase on one character of the alphabet
LowerOf(ch) ==
  CASE ch = "A" -> "a" [] ch = "N" -> "n" [] ch = "X" -> "x" [] ch = "C" -> "c"
    [] ch = "O" -> "o" [] ch = "M" -> "m" [] ch = "P" -> "p" [] ch = "W" -> "w"
    [] OTHER -> ch

toLowerCase(s) == [i \in 1..Len(s) |-> LowerOf(s[i])]

RECURSIVE trimStart(_)
trimStart(s) ==
  IF s # <<>> /\ Head(s) \in Whitespace THEN trimStart(Tail(s)) ELSE s

RECURSIVE trimEnd(_)
trimEnd(s) ==
  IF s # <<>> /\ s[Len(s)] \in Whitespace
  THEN trimEnd(SubSeq(s, 1, Len(s) - 1)) ELSE s

\* String.prototype.trim
trim(s) == trimEnd(trimStart(s))

\* ------------------------------------------------------------------------
\* Validation schema (zod)
\* ------------------------------------------------------------------------
AlphaChars == LowerChars \cup UpperChars
AlnumChars == AlphaChars \cup DigitChars
LocalChars == AlnumChars \cup {"_", "'", "+", "-", "."}
LocalLastChars == AlnumChars \cup {"_", "+", "-"}
LabelChars == AlnumChars \cup {"-"}

\* positions of ch in s
Positions(s, ch) == {i \in 1..Len(s) : s[i] = ch}

\* a domain label that is followed by a dot: [A-Z0-9][A-Z0-9\-]*
IsInnerLabel(l) ==
  /\ Len(l) >= 1
  /\ l[1] \in AlnumChars
  /\ \A i \in 1..Len(l) : l[i] \in LabelChars

\* the final label: [A-Z]{2,}
IsTld(l) ==
  /\ Len(l) >= MinTldLen
  /\ \A i \in 1..Len(l) : l[i] \in AlphaChars

\* ([A-Z0-9][A-Z0-9\-]*\.)+[A-Z]{2,}
IsDomain(d) ==
  LET dots == Positions(d, ".") IN
  /\ dots # {}
  /\ LET last == CHOOSE i \in dots : \A j \in dots : j <= i IN
     /\ IsTld(SubSeq(d, last + 1, Len(d)))
     /\ \A i \in dots :
          LET prev == {j \in dots : j < i}
              from == IF prev = {} THEN 1
                      ELSE (CHOOSE j \in prev : \A k \in prev : k <= j) + 1
          IN IsInnerLabel(SubSeq(d, from, i - 1))

\* z.string().email(): the address shape accepted by the schema
\*   ^(?!\.)(?!.*\.\.)([A-Z0-9_'+\-\.]*)[A-Z0-9_+-]@([A-Z0-9][A-Z0-9\-]*\.)+[A-Z]{2,}$
IsEmail(s) ==
  LET ats == Positions(s, "@") IN
  /\ Cardinality(ats) = 1
  /\ LET at == CHOOSE i \in ats : TRUE
         local == SubSeq(s, 1, at - 1)
         domain == SubSeq(s, at + 1, Len(s))
     IN
     /\ Len(local) >= 1
     /\ local[1] # "."
     /\ \A i \in 1..Len(local) : local[i] \in LocalChars
     /\ local[Len(local)] \in LocalLastChars
     /\ \A i \in 1..(Len(s) - 1) : ~(s[i] = "." /\ s[i + 1] = ".")
     /\ IsDomain(domain)

Intents == {"brochure", "enroll"}

\* enrollmentSchema without the rule on the phone
enrollmentSchema_NoPhoneRule(c) ==
  (IF Len(c.fullName) < MinNameLen THEN {"fullName"} ELSE {})
  \cup (IF ~IsEmail(c.email) THEN {"email"} ELSE {})
  \cup (IF c.intent \notin Intents THEN {"intent"} ELSE {})

\* enrollmentSchema measuring the name after trimming it
enrollmentSchema_TrimmedName(c) ==
  (IF Len(trim(c.fullName)) < MinNameLen THEN {"fullName"} ELSE {})
  \cup (IF ~IsEmail(c.email) THEN {"email"} ELSE {})
  \cup (IF Len(c.phone) < MinPhoneLen THEN {"phone"} ELSE {})
  \cup (IF c.intent \notin Intents THEN {"intent"} ELSE {})

\* enrollmentSchema: the set of fields of the candidate that violate a rule
enrollmentSchema(c) ==
  (IF Len(c.fullName) < MinNameLen THEN {"fullName"} ELSE {})
  \cup (IF ~IsEmail(c.email) THEN {"email"} ELSE {})
  \cup (IF Len(c.phone) < MinPhoneLen THEN {"phone"} ELSE {})
  \cup (IF c.intent \notin Intents THEN {"intent"} ELSE {})


\* ------------------------------------------------------------------------
\* Inputs explored
\* ------------------------------------------------------------------------
NameA == <<"A">>
NameAn == <<"A", "n">>
EmailNoAt == <<"a", "n", "a">>
EmailAna == <<"a", "@", "x", ".", "c", "o">>
Phone9 == <<"9", "9", "9", "8", "8", "8", "7", "7", "7">>
Phone10 == <<"9", "9", "9", "8", "8", "8", "7", "7", "7", "6">>

LeadNames == {NameA, NameAn}
LeadEmails == {EmailNoAt, EmailAna}
LeadPhones == {Phone9, Phone10}

\* localStorage faults during saveLeadToDemoDB: none, getItem/JSON.parse
\* throws, setItem throws
StoreFaults == {"none", "read", "write"}

Uids == {"uid1", "uid2"}

ConfigKeys ==
  {"apiKey", "authDomain", "projectId", "storageBucket", "messagingSenderId", "appId"}

\* configurations explored: the credentials that are set (non-empty)
Configs ==
  { ConfigKeys,
    {},
    ConfigKeys \ {"apiKey"} }

\* hasFirebaseKeys without the test of projectId
hasFirebaseKeys_NoProjectId(cfg) ==
  "apiKey" \in cfg /\ "authDomain" \in cfg

\* hasFirebaseKeys(config)
hasFirebaseKeys(cfg) ==
  "apiKey" \in cfg /\ "authDomain" \in cfg /\ "projectId" \in cfg

\* ------------------------------------------------------------------------
\* State
\* ------------------------------------------------------------------------
VARIABLES
  config,            \* initialConfig: the credentials present
  authCall,          \* signInAnonymously: "none", "pending", "resolved", "rejected"
  authUser,          \* the SDK's current user (uid or None)
  user,              \* LandingPage state `user`
  enrollmentStatus,  \* LandingPage state `enrollmentStatus`
  formIntent,        \* LandingPage state `formIntent`
  intentValue,       \* the form's registered value of "intent"
  errors,            \* formState.errors: the fields with an error
  demoLeads,         \* localStorage[pmx_demo_leads], parsed
  demoLeadsGlobal,   \* globalThis.__PMX_DEMO_LEADS__
  pendingWrite,      \* the addDoc calls in flight (documents not yet acknowledged)
  remoteLeads,       \* documents of the remote leads collection
  timers,            \* pending setTimeout callbacks of completeLeadSubmission
  downloads,         \* number of startBrochureDownload() runs
  now,               \* the clock, in milliseconds
  calls,             \* number of submit attempts so far
  lastSubmit,        \* observation of the last submit attempt
  brochureSuccesses, \* completeLeadSubmission("brochure") runs so far
  remoteWrites,      \* addDoc calls issued so far
  lastDownload,      \* observation of the last download trigger
  demoUsers,         \* localStorage[pmx_demo_users], parsed
  demoSession,       \* localStorage[pmx_demo_auth_session]: <<>> or <<email>>
  mode,              \* AuthPage state `mode`
  error,             \* AuthPage state `error`
  authCalls,         \* number of handleSubmitAuth calls so far
  lastAuth,          \* observation of the last handleSubmitAuth call
  view,              \* the page of the demo-auth routes on screen
  tabs               \* per browser tab: where its submit is, what it read

identityVars == <<config, authCall, authUser, user>>
formVars == <<enrollmentStatus, formIntent, intentValue, errors>>
storeVars == <<demoLeads, demoLeadsGlobal, pendingWrite, remoteLeads>>
timerVars == <<timers, downloads, lastDownload>>
countVars == <<calls, lastSubmit, brochureSuccesses, remoteWrites>>

leadVars == <<identityVars, formVars, storeVars, timerVars, countVars, now>>
authVars == <<demoUsers, demoSession, mode, error, authCalls, lastAuth, view>>

vars == <<leadVars, authVars, tabs>>

\* const app = firebaseEnabled ? initializeApp(...) : null; auth; db
firebaseEnabled == hasFirebaseKeys(config)
auth == firebaseEnabled
db == firebaseEnabled

\* the browser tabs that share the local store
Tabs == {1, 2}

NoSubmit ==
  [candidate |-> <<>>, violated |-> {}, fault |-> "none", outcome |-> "none",
   leadsBefore |-> <<>>, remoteBefore |-> <<>>, statusBefore |-> "idle",
   user |-> None, at |-> 0, alerted |-> FALSE, logged |-> FALSE]

NoAuth ==
  [mode |-> "none", fullName |-> <<>>, email |-> <<>>, password |-> <<>>,
   fault |-> "none", outcome |-> "none", usersBefore |-> <<>>,
   sessionBefore |-> <<>>, navigated |-> ""]

\* the state after the module and the pages are initialised, for a
\* configuration among cfgs
InitFor(cfgs) ==
  /\ config \in cfgs
  /\ authCall = IF hasFirebaseKeys(config) THEN "pending" ELSE "none"
  /\ authUser = None
  /\ user = None
  /\ enrollmentStatus = "idle"
  /\ formIntent = "enroll"
  /\ intentValue = "enroll"
  /\ errors = {}
  /\ demoLeads = <<>>
  /\ demoLeadsGlobal = <<>>
  /\ pendingWrite = <<>>
  /\ remoteLeads = <<>>
  /\ timers = <<>>
  /\ downloads = 0
  /\ now = 0
  /\ calls = 0
  /\ lastSubmit = NoSubmit
  /\ brochureSuccesses = 0
  /\ remoteWrites = 0
  /\ lastDownload = [scheduledAt |-> 0, firedAt |-> 0]
  /\ demoUsers = <<>>
  /\ demoSession = <<>>
  /\ mode = "signup"
  /\ error = ""
  /\ authCalls = 0
  /\ lastAuth = NoAuth
  /\ view = "auth"
  /\ tabs = [t \in Tabs |-> [status |-> "idle", existing |-> <<>>, appended |-> 0]]

Init == InitFor(Configs)

\* ------------------------------------------------------------------------
\* Lead submission
\* ------------------------------------------------------------------------

\* saveLeadToDemoDB doing nothing
saveLeadToDemoDB_Skipped(stored, global, lead, ts, fault) ==
  [leads |-> stored, global |-> global, threw |-> FALSE, logged |-> FALSE]

\* saveLeadToDemoDB writing the new entry alone instead of appending it
saveLeadToDemoDB_Overwrite(stored, global, lead, ts, fault) ==
  LET next == <<[fullName |-> lead.fullName, email |-> lead.email,
                 phone |-> lead.phone, intent |-> lead.intent,
                 source |-> SourceTag, submittedAt |-> ts]>>
  IN IF fault = "none"
     THEN [leads |-> next, global |-> next, threw |-> FALSE, logged |-> FALSE]
     ELSE [leads |-> stored, global |-> global, threw |-> FALSE, logged |-> TRUE]

\* saveLeadToDemoDB without its try/catch: a throwing store leaves the
\* function as an exception
saveLeadToDemoDB_NoCatch(stored, global, lead, ts, fault) ==
  LET next == Append(stored,
                [fullName |-> lead.fullName, email |-> lead.email,
                 phone |-> lead.phone, intent |-> lead.intent,
                 source |-> SourceTag, submittedAt |-> ts])
  IN IF fault = "none"
     THEN [leads |-> next, global |-> next, threw |-> FALSE, logged |-> FALSE]
     ELSE [leads |-> stored, global |-> global, threw |-> TRUE, logged |-> FALSE]

\* saveLeadToDemoDB(lead): the archive and the global mirror after the call,
\* whether an exception left the function, and whether it logged
saveLeadToDemoDB(stored, global, lead, ts, fault) ==
  LET next == Append(stored,
                [fullName |-> lead.fullName, email |-> lead.email,
                 phone |-> lead.phone, intent |-> lead.intent,
                 source |-> SourceTag, submittedAt |-> ts])
  IN IF fault = "none"
     THEN [leads |-> next, global |-> next, threw |-> FALSE, logged |-> FALSE]
     ELSE [leads |-> stored, global |-> global, threw |-> FALSE, logged |-> TRUE]

\* completeLeadSubmission scheduling the download whatever the intent
completeLeadSubmission_AlwaysDownload(intent, tms, t) ==
  [status |-> "success",
   timers |-> Append(tms, [scheduledAt |-> t, due |-> t + DownloadDelay])]

\* completeLeadSubmission(intent): the status it sets and the timers after it
completeLeadSubmission(intent, tms, t) ==
  [status |-> "success",
   timers |-> IF intent = "brochure"
              THEN Append(tms, [scheduledAt |-> t, due |-> t + DownloadDelay])
              ELSE tms]

\* the identity check of onSubmit left out
notReady_Never(u) == FALSE

\* if (!user): no AnonymousIdentity has been delivered to the component yet
notReady(u) == u = None

\* 1 when the submission asked for the brochure
BrochureCount(intent) == IF intent = "brochure" THEN 1 ELSE 0

\* the document handed to addDoc
leadDoc(data, u) ==
  [fullName |-> data.fullName, email |-> data.email, phone |-> data.phone,
   intent |-> data.intent, userId |-> u]

\* onSubmit(data): runs only for a candidate the resolver accepted
onSubmit(data, fault) ==
  LET saved == saveLeadToDemoDB(demoLeads, demoLeadsGlobal, data, now, fault)
      done == completeLeadSubmission(data.intent, timers, now)
      obs == [candidate |-> data, violated |-> {}, fault |-> fault,
              outcome |-> "none",
              leadsBefore |-> demoLeads, remoteBefore |-> remoteLeads,
              statusBefore |-> enrollmentStatus, user |-> user, at |-> now,
              alerted |-> FALSE, logged |-> saved.logged]
  IN
  /\ demoLeads' = saved.leads
  /\ demoLeadsGlobal' = saved.global
  /\ errors' = {}
  /\ IF saved.threw
     THEN \* the exception leaves onSubmit after setEnrollmentStatus('loading')
          /\ enrollmentStatus' = "loading"
          /\ lastSubmit' = [obs EXCEPT !.outcome = "threw"]
          /\ UNCHANGED <<timers, brochureSuccesses, pendingWrite, remoteWrites>>
     ELSE IF ~db
     THEN /\ enrollmentStatus' = done.status
          /\ timers' = done.timers
          /\ brochureSuccesses' = brochureSuccesses + BrochureCount(data.intent)
          /\ lastSubmit' = [obs EXCEPT !.outcome = "local-only"]
          /\ UNCHANGED <<pendingWrite, remoteWrites>>
     ELSE IF notReady(user)
     THEN /\ enrollmentStatus' = "idle"
          /\ lastSubmit' = [obs EXCEPT !.outcome = "not-ready", !.alerted = TRUE]
          /\ UNCHANGED <<timers, brochureSuccesses, pendingWrite, remoteWrites>>
     ELSE /\ enrollmentStatus' = "loading"
          /\ pendingWrite' = Append(pendingWrite, leadDoc(data, user))
          /\ remoteWrites' = remoteWrites + 1
          /\ lastSubmit' = [obs EXCEPT !.outcome = "writing"]
          /\ UNCHANGED <<timers, brochureSuccesses>>

\* Button: disabled={isLoading}, and the spinner before the children
Button(isLoading, children) ==
  [disabled |-> isLoading, spinner |-> isLoading, children |-> children]

\* the render of #form-container: the success panel when the status is
\* success, the form with its field errors and its submit Button otherwise
formContainer(status, intent, errs) ==
  IF status = "success"
  THEN [panel |-> "success",
        heading |-> IF intent = "brochure" THEN "Brochure Ready!"
                    ELSE "Enrollment Submitted!",
        text |-> IF intent = "brochure" THEN "Download started."
                 ELSE "Enrollment saved. You will receive a welcome email shortly.",
        fieldErrors |-> {},
        button |-> Button(FALSE, "Back")]
  ELSE [panel |-> "form",
        heading |-> "",
        text |-> "",
        fieldErrors |-> errs,
        button |-> Button(status = "loading",
                          IF intent = "brochure" THEN "Get Brochure Now"
                          ELSE "Join Accelerator Batch")]

\* the submit button left enabled while the status is loading
CanSubmit_WhileLoading == enrollmentStatus # "success"

\* the form is rendered unless the status is success, and its submit button
\* is disabled while the status is loading
CanSubmit == enrollmentStatus \notin {"success", "loading"}

\* handleSubmit(onSubmit): the resolver validates, then onSubmit runs
Submit(fullName, email, phone, fault) ==
  LET c == [fullName |-> fullName, email |-> email, phone |-> phone,
            intent |-> intentValue]
      violated == enrollmentSchema(c)
  IN
  /\ CanSubmit
  /\ calls < MaxCalls
  /\ calls' = calls + 1
  /\ IF violated # {}
     THEN /\ fault = "none"
          /\ errors' = violated
          /\ lastSubmit' =
               [candidate |-> c, violated |-> violated, fault |-> "none",
                outcome |-> "rejected", leadsBefore |-> demoLeads,
                remoteBefore |-> remoteLeads, statusBefore |-> enrollmentStatus,
                user |-> user, at |-> now, alerted |-> FALSE, logged |-> FALSE]
          /\ UNCHANGED <<enrollmentStatus, demoLeads, demoLeadsGlobal,
                         timers, brochureSuccesses, pendingWrite, remoteWrites>>
     ELSE onSubmit(c, fault)
  /\ UNCHANGED <<identityVars, formIntent, intentValue, remoteLeads, downloads,
                 lastDownload, now, authVars, tabs>>

\* await addDoc(...) resolves: the document is stored with the server's time
AddDocResolves ==
  /\ pendingWrite # <<>>
  /\ LET done == completeLeadSubmission(Head(pendingWrite).intent, timers, now) IN
     /\ remoteLeads' = Append(remoteLeads,
          [doc |-> Head(pendingWrite), submittedAt |-> now])
     /\ pendingWrite' = Tail(pendingWrite)
     /\ enrollmentStatus' = done.status
     /\ timers' = done.timers
     /\ brochureSuccesses' = brochureSuccesses + BrochureCount(Head(pendingWrite).intent)
     /\ lastSubmit' = [lastSubmit EXCEPT !.outcome = "succeeded"]
  /\ UNCHANGED <<identityVars, formIntent, intentValue, errors, demoLeads,
                 demoLeadsGlobal, downloads, lastDownload, calls, remoteWrites,
                 now, authVars, tabs>>

\* the catch of onSubmit reporting success
AddDocRejects_ReportsSuccess ==
  /\ pendingWrite # <<>>
  /\ pendingWrite' = Tail(pendingWrite)
  /\ enrollmentStatus' = "success"
  /\ lastSubmit' = [lastSubmit EXCEPT !.outcome = "failed"]
  /\ UNCHANGED <<identityVars, formIntent, intentValue, errors, demoLeads,
                 demoLeadsGlobal, remoteLeads, timerVars, calls,
                 brochureSuccesses, remoteWrites, now, authVars, tabs>>

\* the catch of onSubmit returning the form to idle instead of error
AddDocRejects_SetsIdle ==
  /\ pendingWrite # <<>>
  /\ pendingWrite' = Tail(pendingWrite)
  /\ enrollmentStatus' = "idle"
  /\ lastSubmit' = [lastSubmit EXCEPT !.outcome = "failed"]
  /\ UNCHANGED <<identityVars, formIntent, intentValue, errors, demoLeads,
                 demoLeadsGlobal, remoteLeads, timerVars, calls,
                 brochureSuccesses, remoteWrites, now, authVars, tabs>>

\* await addDoc(...) rejects: catch (err) { setEnrollmentStatus('error') }
AddDocRejects ==
  /\ pendingWrite # <<>>
  /\ pendingWrite' = Tail(pendingWrite)
  /\ enrollmentStatus' = "error"
  /\ lastSubmit' = [lastSubmit EXCEPT !.outcome = "failed"]
  /\ UNCHANGED <<identityVars, formIntent, intentValue, errors, demoLeads,
                 demoLeadsGlobal, remoteLeads, timerVars, calls,
                 brochureSuccesses, remoteWrites, now, authVars, tabs>>

\* the Back button of the success panel
Back ==
  /\ enrollmentStatus = "success"
  /\ enrollmentStatus' = "idle"
  /\ UNCHANGED <<identityVars, formIntent, intentValue, errors, storeVars,
                 timerVars, countVars, now, authVars, tabs>>

\* handleActionClick(intent)
handleActionClick(intent) ==
  /\ formIntent' = intent
  /\ intentValue' = intent
  /\ UNCHANGED <<identityVars, enrollmentStatus, errors, storeVars, timerVars,
                 countVars, now, authVars, tabs>>

\* the download scheduled with a repeating timer: the callback stays armed
DownloadTimerFires_Repeats ==
  /\ timers # <<>>
  /\ Head(timers).due <= now
  /\ downloads < MaxCalls
  /\ timers' = timers
  /\ downloads' = downloads + 1
  /\ lastDownload' = [scheduledAt |-> Head(timers).scheduledAt, firedAt |-> now]
  /\ UNCHANGED <<identityVars, formVars, storeVars, countVars, now, authVars, tabs>>

\* the setTimeout callback: startBrochureDownload()
DownloadTimerFires ==
  /\ timers # <<>>
  /\ Head(timers).due <= now
  /\ timers' = Tail(timers)
  /\ downloads' = downloads + 1
  /\ lastDownload' = [scheduledAt |-> Head(timers).scheduledAt, firedAt |-> now]
  /\ UNCHANGED <<identityVars, formVars, storeVars, countVars, now, authVars, tabs>>

\* ------------------------------------------------------------------------
\* Anonymous identity (the auth effect of LandingPage)
\* ------------------------------------------------------------------------

\* the sign-in run again after it resolved, returning another identity
SignInResolves_Again(uid) ==
  /\ authCall \in {"pending", "resolved"}
  /\ authCall' = "resolved"
  /\ authUser' = uid
  /\ UNCHANGED <<config, user, formVars, storeVars, timerVars, countVars, now,
                 authVars, tabs>>

\* await signInAnonymously(auth) resolves
SignInResolves(uid) ==
  /\ authCall = "pending"
  /\ authCall' = "resolved"
  /\ authUser' = uid
  /\ UNCHANGED <<config, user, formVars, storeVars, timerVars, countVars, now,
                 authVars, tabs>>

\* await signInAnonymously(auth) rejects: console.error("Firebase Auth Error")
SignInRejects ==
  /\ authCall = "pending"
  /\ authCall' = "rejected"
  /\ UNCHANGED <<config, authUser, user, formVars, storeVars, timerVars,
                 countVars, now, authVars, tabs>>

\* the listener sending, with the identity it delivers, the submission that
\* was held back for it
AuthStateChanged_Resends ==
  /\ auth
  /\ user # authUser
  /\ user' = authUser
  /\ IF lastSubmit.outcome = "not-ready"
     THEN /\ pendingWrite' = Append(pendingWrite, leadDoc(lastSubmit.candidate, authUser))
          /\ remoteWrites' = remoteWrites + 1
          /\ enrollmentStatus' = "loading"
          /\ lastSubmit' = [lastSubmit EXCEPT !.outcome = "writing"]
     ELSE UNCHANGED <<pendingWrite, remoteWrites, enrollmentStatus, lastSubmit>>
  /\ UNCHANGED <<config, authCall, authUser, formIntent, intentValue, errors,
                 demoLeads, demoLeadsGlobal, remoteLeads, timerVars, calls,
                 brochureSuccesses, now, authVars, tabs>>

\* onAuthStateChanged(auth, setUser): the listener delivers the SDK's user
AuthStateChanged ==
  /\ auth
  /\ user # authUser
  /\ user' = authUser
  /\ UNCHANGED <<config, authCall, authUser, formVars, storeVars, timerVars,
                 countVars, now, authVars, tabs>>

\* time passes
Tick ==
  /\ now + TickMs <= MaxTime
  /\ now' = now + TickMs
  /\ UNCHANGED <<identityVars, formVars, storeVars, timerVars, countVars,
                 authVars, tabs>>

Next ==
  \/ \E n \in LeadNames, e \in LeadEmails, p \in LeadPhones, f \in StoreFaults :
       Submit(n, e, p, f)
  \/ AddDocResolves
  \/ AddDocRejects
  \/ Back
  \/ \E i \in Intents : handleActionClick(i)
  \/ DownloadTimerFires
  \/ \E u \in Uids : SignInResolves(u)
  \/ SignInRejects
  \/ AuthStateChanged
  \/ Tick

Spec == Init /\ [][Next]_vars

\* ------------------------------------------------------------------------
\* The lead form under every configuration: each subset of the credentials
\* can be the set that is configured; one valid candidate is submitted.
\* ------------------------------------------------------------------------
ConfigInit == InitFor(SUBSET ConfigKeys)

ConfigNext ==
  \/ \E f \in {"none", "write"} : Submit(NameAn, EmailAna, Phone10, f)
  \/ AddDocResolves
  \/ AddDocRejects
  \/ Back
  \/ SignInResolves("uid1")
  \/ SignInRejects
  \/ AuthStateChanged

ConfigSpec == ConfigInit /\ [][ConfigNext]_vars

\* ------------------------------------------------------------------------
\* Two tabs on the lead form, sharing the local store, with the remote store
\* not configured. Each tab runs onSubmit for an enroll candidate of its
\* own; the store is shared between the tabs' processes without a lock, so
\* another tab can act between the getItem and the setItem of
\* saveLeadToDemoDB.
\* ------------------------------------------------------------------------

\* the candidate tab t submits
TabLead(t) ==
  [fullName |-> IF t = 1 THEN NameAn ELSE <<"A", "n", "a">>,
   email |-> EmailAna, phone |-> Phone10, intent |-> "enroll"]

\* onSubmit up to the read of saveLeadToDemoDB: setEnrollmentStatus('loading');
\* const existing = JSON.parse(localStorage.getItem(demoLeadsKey) || "[]")
tabRead(t) ==
  /\ tabs[t].status \notin {"success", "loading"}
  /\ tabs[t].appended < MaxTabAppends
  /\ tabs' = [tabs EXCEPT ![t].status = "loading", ![t].existing = demoLeads]
  /\ UNCHANGED <<leadVars, authVars>>

\* the write of the new entry alone, without what was read
tabWrite_Overwrites(t) ==
  /\ tabs[t].status = "loading"
  /\ demoLeads' = saveLeadToDemoDB(<<>>, demoLeadsGlobal, TabLead(t), now, "none").leads
  /\ demoLeadsGlobal' = demoLeads'
  /\ tabs' = [tabs EXCEPT ![t].status = "success", ![t].existing = <<>>,
                            ![t].appended = @ + 1]
  /\ UNCHANGED <<identityVars, formVars, pendingWrite, remoteLeads, timerVars,
                 countVars, now, authVars>>

\* the rest of onSubmit: localStorage.setItem(demoLeadsKey, [...existing,
\* entry]), then, db being null, completeLeadSubmission('enroll')
tabWrite(t) ==
  /\ tabs[t].status = "loading"
  /\ demoLeads' = saveLeadToDemoDB(tabs[t].existing, demoLeadsGlobal,
                                   TabLead(t), now, "none").leads
  /\ demoLeadsGlobal' = demoLeads'
  /\ tabs' = [tabs EXCEPT ![t].status = "success", ![t].existing = <<>>,
                            ![t].appended = @ + 1]
  /\ UNCHANGED <<identityVars, formVars, pendingWrite, remoteLeads, timerVars,
                 countVars, now, authVars>>

\* the Back button of the success panel in tab t
tabBack(t) ==
  /\ tabs[t].status = "success"
  /\ tabs' = [tabs EXCEPT ![t].status = "idle"]
  /\ UNCHANGED <<leadVars, authVars>>

TabsNext ==
  \/ \E t \in Tabs : tabRead(t)
  \/ \E t \in Tabs : tabWrite(t)
  \/ \E t \in Tabs : tabBack(t)

\* both tabs freshly loaded, no credentials configured
TabsInit == InitFor({{}})

TabsSpec == TabsInit /\ [][TabsNext]_vars

\* ------------------------------------------------------------------------
\* The resolver of the form alone, over a wider set of candidates
\* ------------------------------------------------------------------------
NameEmpty == <<>>
NameBlanks == <<" ", " ">>
NameAna == <<"A", "n", "a">>
EmailNoTld == <<"a", "@", "x">>
EmailShortTld == <<"a", "@", "x", ".", "c">>
EmailLeadingDot == <<".", "a", "@", "x", ".", "c", "o">>
EmailUpper == <<"A", "@", "X", ".", "C", "O">>
PhoneLetters == <<"a", "b", "c", "d", "e", "f", "g", "h", "i", "j">>
Phone11 == <<"+", "9", "9", "9", "8", "8", "8", "7", "7", "7", "6">>

Candidates ==
  [fullName : {NameEmpty, NameA, NameAn, NameBlanks, NameAna},
   email : {EmailNoAt, EmailAna, EmailNoTld, EmailShortTld, EmailLeadingDot,
            EmailUpper},
   phone : {Phone9, Phone10, PhoneLetters, Phone11},
   intent : {"brochure", "enroll", "other"}]

\* zodResolver(enrollmentSchema) applied to the values c: the field errors.
\* The form's own value of intent is "enroll" until a button sets it; a
\* value outside the enum only reaches the schema from outside the form.
zodResolver(c) ==
  /\ c.intent \in {intentValue, "other"}
  /\ errors' = enrollmentSchema(c)
  /\ lastSubmit' =
       [NoSubmit EXCEPT !.candidate = c, !.violated = enrollmentSchema(c),
          !.outcome = IF enrollmentSchema(c) = {} THEN "accepted" ELSE "rejected"]
  /\ UNCHANGED <<identityVars, enrollmentStatus, formIntent, intentValue,
                 storeVars, timerVars, calls, brochureSuccesses, remoteWrites,
                 now, authVars, tabs>>

ValidationNext ==
  \/ \E c \in Candidates : zodResolver(c)
  \/ \E i \in Intents : handleActionClick(i)

ValidationSpec == Init /\ [][ValidationNext]_vars

\* ------------------------------------------------------------------------
\* Properties of the lead submission
\* ------------------------------------------------------------------------

\* the step is a submit attempt (handleSubmit ran)
IsSubmitStep == calls' = calls + 1

\* the candidate satisfies every rule of section 4.1
MeetsRules(c) ==
  /\ Len(c.fullName) >= 2
  /\ IsEmail(c.email)
  /\ Len(c.phone) >= 10
  /\ c.intent \in {"brochure", "enroll"}

\* the archive entry of a candidate submitted at time ts
EntryOf(c, ts) ==
  [fullName |-> c.fullName, email |-> c.email, phone |-> c.phone,
   intent |-> c.intent, source |-> "website-form", submittedAt |-> ts]

\* C1: a submit of a candidate that violates a validation rule writes to
\* neither store (local archive, its mirror, remote collection, writes in
\* flight), leaves the status as it was (idle stays idle) and reports an
\* error for exactly the violated fields.
C1_InvalidSubmitWritesNothing ==
  [][ (IsSubmitStep /\ ~MeetsRules(lastSubmit'.candidate)) =>
        /\ demoLeads' = demoLeads
        /\ demoLeadsGlobal' = demoLeadsGlobal
        /\ remoteLeads' = remoteLeads
        /\ pendingWrite' = pendingWrite
        /\ remoteWrites' = remoteWrites
        /\ enrollmentStatus' = enrollmentStatus
        /\ timers' = timers
        /\ errors' # {}
        /\ ("fullName" \in errors') = (Len(lastSubmit'.candidate.fullName) < 2)
        /\ ("email" \in errors') = ~IsEmail(lastSubmit'.candidate.email)
        /\ ("phone" \in errors') = (Len(lastSubmit'.candidate.phone) < 10)
        /\ errors' \subseteq {"fullName", "email", "phone"} ]_vars

\* C1 witness: after an accepted submission a candidate with a short phone
\* and a malformed email was rejected, and the archive still has its entry
C1_Witness ==
  /\ calls = 2
  /\ lastSubmit.outcome = "rejected"
  /\ errors = {"email", "phone"}
  /\ Len(demoLeads) = 1

\* C2 as stated: after a submit completed over the remote path (remote
\* enabled, identity present, transport succeeded) the archive is the archive
\* before the submit with one entry appended: input, source tag, timestamp.
C2_Original ==
  (lastSubmit.outcome = "succeeded") =>
     demoLeads = Append(lastSubmit.leadsBefore,
                        EntryOf(lastSubmit.candidate, lastSubmit.at))

\* C2 amended: the same, provided the read and the write of the local store
\* did not throw; when one of them threw, the archive is the archive before
\* the submit.
C2_ArchiveGainsOneEntry ==
  (lastSubmit.outcome = "succeeded") =>
     /\ (lastSubmit.fault = "none") =>
          demoLeads = Append(lastSubmit.leadsBefore,
                             EntryOf(lastSubmit.candidate, lastSubmit.at))
     /\ (lastSubmit.fault # "none") => demoLeads = lastSubmit.leadsBefore

\* C2 witness: a second submission completed over the remote path and the
\* archive holds the earlier entry followed by the new one
C2_Witness ==
  /\ lastSubmit.outcome = "succeeded"
  /\ lastSubmit.fault = "none"
  /\ Len(lastSubmit.leadsBefore) = 1
  /\ Len(demoLeads) = 2
  /\ demoLeads[2].source = "website-form"

\* C3 as stated: with the remote store disabled a valid submit appends one
\* entry to the archive, sets the status to success at once, issues no remote
\* write, needs no identity, and with intent enroll schedules no download.
C3_Original ==
  [][ (IsSubmitStep /\ ~db /\ MeetsRules(lastSubmit'.candidate)) =>
        /\ demoLeads' = Append(demoLeads, EntryOf(lastSubmit'.candidate, now))
        /\ enrollmentStatus' = "success"
        /\ pendingWrite' = <<>> /\ remoteWrites' = remoteWrites
        /\ remoteLeads' = remoteLeads
        /\ user = None
        /\ (lastSubmit'.candidate.intent = "enroll" => timers' = timers) ]_vars

\* C3 amended: as stated, except that the archive gains its entry only when
\* the local store does not throw (it is unchanged otherwise); the status,
\* the absence of a remote write and the absence of a download do not depend
\* on the local store.
C3_RemoteDisabledSucceeds ==
  [][ (IsSubmitStep /\ ~db /\ MeetsRules(lastSubmit'.candidate)) =>
        /\ (lastSubmit'.fault = "none") =>
             demoLeads' = Append(demoLeads, EntryOf(lastSubmit'.candidate, now))
        /\ (lastSubmit'.fault # "none") => demoLeads' = demoLeads
        /\ enrollmentStatus' = "success"
        /\ pendingWrite' = <<>> /\ remoteWrites' = remoteWrites
        /\ remoteLeads' = remoteLeads
        /\ user = None
        /\ (lastSubmit'.candidate.intent = "enroll" => timers' = timers) ]_vars

\* C3 witness: remote disabled, an enroll submission succeeded at once with
\* one archive entry, no write issued, no download pending or done
C3_Witness ==
  /\ ~db
  /\ enrollmentStatus = "success"
  /\ lastSubmit.candidate # <<>>
  /\ lastSubmit.violated = {}
  /\ lastSubmit.candidate.intent = "enroll"
  /\ Len(demoLeads) = 1
  /\ remoteWrites = 0
  /\ timers = <<>> /\ downloads = 0

\* every remote write, in flight or stored, carries the identity the backend
\* established
IdentityAttached ==
  /\ \A i \in 1..Len(pendingWrite) :
       pendingWrite[i].userId # None /\ pendingWrite[i].userId = authUser
  /\ \A i \in 1..Len(remoteLeads) :
       remoteLeads[i].doc.userId # None /\ remoteLeads[i].doc.userId = authUser

\* C4: with the remote store enabled and no identity delivered yet, a valid
\* submit shows the "not ready" alert, returns the status to idle and issues
\* no remote write; and every remote write ever issued carries an
\* established identity.
C4_NotReadyWithoutIdentity ==
  /\ IdentityAttached
  /\ [][ /\ IdentityAttached'
         /\ (IsSubmitStep /\ db /\ user = None /\ MeetsRules(lastSubmit'.candidate)) =>
              /\ lastSubmit'.alerted
              /\ enrollmentStatus' = "idle"
              /\ pendingWrite' = pendingWrite
              /\ remoteWrites' = remoteWrites
              /\ remoteLeads' = remoteLeads ]_vars

\* C4 witness: remote enabled, the identity not yet delivered to the
\* component, and a valid submit was answered with the alert
C4_Witness ==
  /\ db
  /\ user = None
  /\ lastSubmit.alerted
  /\ lastSubmit.violated = {}
  /\ enrollmentStatus = "idle"
  /\ remoteWrites = 0

\* C5: a remote write that resolves leaves the status success, one that
\* rejects leaves the status error with nothing in flight and nothing
\* reissued; remote writes are only issued by a submit, one per submit.
C5_RemoteWriteOutcome ==
  [][ /\ (Len(pendingWrite') < Len(pendingWrite) /\ remoteLeads' # remoteLeads) =>
           enrollmentStatus' = "success"
      /\ (Len(pendingWrite') < Len(pendingWrite) /\ remoteLeads' = remoteLeads) =>
           /\ enrollmentStatus' = "error"
           /\ pendingWrite' = <<>>
           /\ remoteWrites' = remoteWrites
      /\ (remoteWrites' # remoteWrites) =>
           /\ IsSubmitStep
           /\ remoteWrites' = remoteWrites + 1
           /\ Len(pendingWrite') = 1
      /\ remoteWrites' <= calls' ]_vars

\* C5 witness: the remote write of a submission failed in transport; the
\* status is error, nothing is in flight, one write was issued
C5_Witness ==
  /\ enrollmentStatus = "error"
  /\ lastSubmit.outcome = "failed"
  /\ pendingWrite = <<>>
  /\ remoteWrites = 1
  /\ remoteLeads = <<>>

\* C6: when the local store throws during a valid submit, nothing is
\* surfaced (no field error, no error status, the failure is logged) and the
\* submit takes the branch the remote state decides: success when the remote
\* store is disabled, the alert when the identity is missing, else the remote
\* write is issued.
C6_LocalFailureNotSurfaced ==
  [][ (IsSubmitStep /\ MeetsRules(lastSubmit'.candidate)
         /\ lastSubmit'.fault # "none") =>
        /\ lastSubmit'.logged
        /\ errors' = {}
        /\ enrollmentStatus' # "error"
        /\ (~db) => (enrollmentStatus' = "success" /\ pendingWrite' = <<>>)
        /\ (db /\ user = None) =>
             (enrollmentStatus' = "idle" /\ lastSubmit'.alerted
                /\ pendingWrite' = <<>>)
        /\ (db /\ user # None) =>
             /\ enrollmentStatus' = "loading"
             /\ pendingWrite' = <<[fullName |-> lastSubmit'.candidate.fullName,
                                   email |-> lastSubmit'.candidate.email,
                                   phone |-> lastSubmit'.candidate.phone,
                                   intent |-> lastSubmit'.candidate.intent,
                                   userId |-> user]>> ]_vars

\* C6 witness: the write of the archive threw, and the submission still
\* succeeded over the remote path
C6_Witness ==
  /\ lastSubmit.fault = "write"
  /\ lastSubmit.logged
  /\ lastSubmit.outcome = "succeeded"
  /\ enrollmentStatus = "success"
  /\ demoLeads = <<>>
  /\ Len(remoteLeads) = 1

\* C7: every successful brochure submission has exactly one download
\* trigger, pending or fired, and nothing else has one; a trigger is
\* scheduled only by a step that sets the status to success, fires only once
\* and not before the delay has passed.
C7_DownloadOncePerBrochureSuccess ==
  /\ downloads + Len(timers) = brochureSuccesses
  /\ [][ /\ downloads' + Len(timers') = brochureSuccesses'
         /\ downloads' <= brochureSuccesses'
         /\ (Len(timers') > Len(timers)) =>
              /\ enrollmentStatus' = "success"
              /\ Len(timers') = Len(timers) + 1
              /\ lastSubmit'.candidate.intent = "brochure"
              /\ lastSubmit'.outcome \in {"local-only", "succeeded"}
         /\ (downloads' # downloads) =>
              /\ downloads' = downloads + 1
              /\ Len(timers') = Len(timers) - 1
              /\ lastDownload'.firedAt - lastDownload'.scheduledAt >= 1000 ]_vars

\* C7 witness: two brochure submissions succeeded; the trigger of the first
\* has fired, after the delay, and the trigger of the second is pending
C7_Witness ==
  /\ brochureSuccesses = 2
  /\ downloads = 1
  /\ Len(timers) = 1
  /\ lastDownload.firedAt >= lastDownload.scheduledAt + 1000

\* ------------------------------------------------------------------------
\* Demo authentication (AuthPage, DashboardPage)
\*
\* The handlers are modelled as operations that can be invoked in any state:
\* the routes that mount the two pages are commented out in App, so the
\* handlers' own code is the only guard there is.
\* ------------------------------------------------------------------------
AuthNameA == <<"A">>
AuthNameAn == <<"A", "n">>
AuthNamePadded == <<" ", "A", " ">>
AuthEmailBlank == <<" ">>
AuthEmailLower == <<"a", "@", "x">>
AuthEmailUpper == <<"A", "@", "X">>
AuthEmailPadded == <<" ", "a", "@", "X", " ">>
AuthEmailOther == <<"n", "@", "x">>
PasswordP == <<"p">>
PasswordPSpace == <<"p", " ">>
PasswordW == <<"w">>

AuthNames == {AuthNameA, AuthNameAn, AuthNamePadded}
AuthEmails == {<<>>, AuthEmailBlank, AuthEmailLower, AuthEmailUpper,
               AuthEmailPadded, AuthEmailOther}
AuthPasswords == {<<>>, PasswordP, PasswordPSpace, PasswordW}

\* localStorage faults during an auth operation: none, the setItem of the
\* registry throws, the setItem of the session pointer throws
AuthFaults == {"none", "users", "session"}

ErrRequired == "Email and password are required."
ErrName == "Please enter your full name."
ErrExists == "Account already exists. Please login."
ErrInvalid == "Invalid email or password."

\* the email lowercased but not trimmed
normalizedEmailOf_NoTrim(email) == toLowerCase(email)

\* the email trimmed but not lowercased
normalizedEmailOf_NoLower(email) == trim(email)

\* email.trim().toLowerCase()
normalizedEmailOf(email) == toLowerCase(trim(email))

\* !normalizedEmail || !password.trim()
missingCredentials(normalizedEmail, password) ==
  normalizedEmail = <<>> \/ trim(password) = <<>>

\* the name check rejecting only an empty name
nameTooShort_OnlyEmpty(fullName) == Len(trim(fullName)) < 1

\* fullName.trim().length < 2
nameTooShort(fullName) == Len(trim(fullName)) < MinAuthNameLen

\* user.email.toLowerCase() === normalizedEmail
emailMatches(u, normalizedEmail) == toLowerCase(u.email) = normalizedEmail

\* the password compared as typed, without trimming
passwordMatches_NoTrim(u, password) == u.password = password

\* user.password === password.trim()
passwordMatches(u, password) == u.password = trim(password)

\* getDemoUsers()
getDemoUsers == demoUsers

\* getDemoSession()
getDemoSession == demoSession

\* saveDemoUsers dropping a refused write without throwing
saveDemoUsers_Silent(stored, users, fault) ==
  IF fault = "users"
  THEN [users |-> stored, threw |-> FALSE]
  ELSE [users |-> users, threw |-> FALSE]

\* saveDemoUsers storing the last entry of the list alone
saveDemoUsers_OnlyLast(stored, users, fault) ==
  IF fault = "users"
  THEN [users |-> stored, threw |-> TRUE]
  ELSE [users |-> IF users = <<>> THEN <<>> ELSE <<users[Len(users)]>>,
        threw |-> FALSE]

\* saveDemoUsers(users): the registry after the call and whether it threw
saveDemoUsers(stored, users, fault) ==
  IF fault = "users"
  THEN [users |-> stored, threw |-> TRUE]
  ELSE [users |-> users, threw |-> FALSE]

\* setDemoSession without the removeItem branch: null leaves the pointer
setDemoSession_IgnoresNull(stored, email, fault) ==
  IF email # <<>>
  THEN IF fault = "session"
       THEN [session |-> stored, threw |-> TRUE]
       ELSE [session |-> <<email>>, threw |-> FALSE]
  ELSE [session |-> stored, threw |-> FALSE]

\* setDemoSession(email): the pointer after the call and whether it threw;
\* email is <<>> for null. A non-empty email is written with setItem, which
\* throws when the store refuses the write; null takes the removeItem
\* branch, which has no failing case.
setDemoSession(stored, email, fault) ==
  IF email # <<>>
  THEN IF fault = "session"
       THEN [session |-> stored, threw |-> TRUE]
       ELSE [session |-> <<email>>, threw |-> FALSE]
  ELSE [session |-> <<>>, threw |-> FALSE]

\* DashboardPage: const currentUser = getDemoUsers().find(user =>
\* user.email === sessionEmail); <<>> when there is none
currentUser(session, users) ==
  LET found == {i \in 1..Len(users) :
                  session # <<>> /\ users[i].email = session[1]}
  IN IF found = {} THEN <<>>
     ELSE <<users[CHOOSE i \in found : \A j \in found : i <= j]>>

\* ProtectedRoute: <Navigate to="/auth"/> when getDemoSession() is empty,
\* its children otherwise
ProtectedRoute(session) == IF session = <<>> THEN "/auth" ELSE "children"

\* DashboardPage's render: null (with navigate('/auth')) when sessionEmail
\* is empty; otherwise the dashboard, whose header greets currentUser by
\* name or, when there is no such user, shows sessionEmail
DashboardPage(session, users) ==
  IF session = <<>> THEN [page |-> "null", header |-> <<>>]
  ELSE [page |-> "dashboard",
        header |-> IF currentUser(session, users) # <<>>
                   THEN currentUser(session, users)[1].fullName
                   ELSE session[1]]

\* navigate(path) over the preserved routes /auth -> AuthPage and
\* /dashboard -> <ProtectedRoute><DashboardPage/></ProtectedRoute>: the page
\* that ends up on screen. AuthPage's mount effect forwards to /dashboard
\* when getDemoSession() is not empty.
navigate(path, session, users) ==
  IF path = "/dashboard" \/ session # <<>>
  THEN IF /\ ProtectedRoute(session) = "children"
          /\ DashboardPage(session, users).page = "dashboard"
       THEN "dashboard" ELSE "auth"
  ELSE "auth"

\* handleSubmitAuth(event)
handleSubmitAuth(fullName, email, password, fault) ==
  LET normalizedEmail == normalizedEmailOf(email)
      users == getDemoUsers
      obs == [mode |-> mode, fullName |-> fullName, email |-> email,
              password |-> password, fault |-> "none", outcome |-> "none",
              usersBefore |-> demoUsers, sessionBefore |-> demoSession,
              navigated |-> ""]
      nextUsers == Append(users,
                     [fullName |-> trim(fullName), email |-> normalizedEmail,
                      password |-> trim(password)])
      matching == {i \in 1..Len(users) :
                     /\ emailMatches(users[i], normalizedEmail)
                     /\ passwordMatches(users[i], password)}
  IN
  /\ authCalls < MaxAuthCalls
  /\ authCalls' = authCalls + 1
  /\ mode' = mode
  /\ IF missingCredentials(normalizedEmail, password)
     THEN /\ fault = "none"
          /\ error' = ErrRequired
          /\ lastAuth' = [obs EXCEPT !.outcome = "required"]
          /\ UNCHANGED <<demoUsers, demoSession, view>>
     ELSE IF mode = "signup"
     THEN IF nameTooShort(fullName)
          THEN /\ fault = "none"
               /\ error' = ErrName
               /\ lastAuth' = [obs EXCEPT !.outcome = "name"]
               /\ UNCHANGED <<demoUsers, demoSession, view>>
          ELSE IF \E i \in 1..Len(users) : emailMatches(users[i], normalizedEmail)
          THEN /\ fault = "none"
               /\ error' = ErrExists
               /\ lastAuth' = [obs EXCEPT !.outcome = "exists"]
               /\ UNCHANGED <<demoUsers, demoSession, view>>
          ELSE LET saved == saveDemoUsers(demoUsers, nextUsers, fault)
                   sess == setDemoSession(demoSession, normalizedEmail, fault)
               IN
               /\ error' = ""
               /\ demoUsers' = saved.users
               /\ IF saved.threw \/ sess.threw
                  THEN /\ demoSession' = demoSession
                       /\ view' = view
                       /\ lastAuth' = [obs EXCEPT !.fault = fault, !.outcome = "threw"]
                  ELSE /\ demoSession' = sess.session
                       /\ view' = navigate("/dashboard", sess.session, saved.users)
                       /\ lastAuth' =
                            [obs EXCEPT !.fault = fault, !.outcome = "ok",
                                        !.navigated = "/dashboard"]
     ELSE IF matching = {}
     THEN /\ fault = "none"
          /\ error' = ErrInvalid
          /\ lastAuth' = [obs EXCEPT !.outcome = "invalid"]
          /\ UNCHANGED <<demoUsers, demoSession, view>>
     ELSE LET matchedUser == users[CHOOSE i \in matching : \A j \in matching : i <= j]
              sess == setDemoSession(demoSession, matchedUser.email, fault)
          IN
          /\ fault # "users"
          /\ error' = ""
          /\ demoSession' = sess.session
          /\ IF sess.threw
             THEN /\ view' = view
                  /\ lastAuth' = [obs EXCEPT !.fault = fault, !.outcome = "threw"]
             ELSE /\ view' = navigate("/dashboard", sess.session, demoUsers)
                  /\ lastAuth' =
                       [obs EXCEPT !.fault = fault, !.outcome = "ok",
                                   !.navigated = "/dashboard"]
          /\ UNCHANGED demoUsers
  /\ UNCHANGED <<leadVars, tabs>>

\* the switch below the form: setError(''); setMode(...)
toggleMode ==
  /\ mode' = IF mode = "signup" THEN "login" ELSE "signup"
  /\ error' = ""
  /\ UNCHANGED <<demoUsers, demoSession, authCalls, lastAuth, view, leadVars, tabs>>

\* the Logout button of DashboardPage: setDemoSession(null); navigate('/auth')
logout ==
  LET sess == setDemoSession(demoSession, <<>>, "none") IN
  /\ authCalls < MaxAuthCalls
  /\ authCalls' = authCalls + 1
  /\ demoSession' = sess.session
  /\ view' = navigate("/auth", sess.session, demoUsers)
  /\ lastAuth' =
       [mode |-> "logout", fullName |-> <<>>, email |-> <<>>, password |-> <<>>,
        fault |-> "none", outcome |-> "ok",
        usersBefore |-> demoUsers, sessionBefore |-> demoSession,
        navigated |-> "/auth"]
  /\ UNCHANGED <<demoUsers, mode, error, leadVars, tabs>>

AuthNext ==
  \/ \E n \in AuthNames, e \in AuthEmails, p \in AuthPasswords, f \in AuthFaults :
       handleSubmitAuth(n, e, p, f)
  \/ toggleMode
  \/ logout

\* the demo authentication does not read the configuration: its
\* specifications start from the one without remote credentials
AuthInit == InitFor({{}})

AuthSpec == AuthInit /\ [][AuthNext]_vars

\* ------------------------------------------------------------------------
\* The demo-auth pages behind their routes, in one tab: AuthPage's handler is
\* at hand on /auth, the Logout button on /dashboard; the tab can be closed
\* and opened again on either path; and the registry can be lost between two
\* visits (the key removed or left unparsable by something other than these
\* handlers), which getDemoUsers answers with [].
\* ------------------------------------------------------------------------

\* the tab is closed
closeTab ==
  /\ view # "closed"
  /\ view' = "closed"
  /\ UNCHANGED <<demoUsers, demoSession, mode, error, authCalls, lastAuth,
                 leadVars, tabs>>

\* the app is opened on path: the route element is rendered from the store
openPage(path) ==
  /\ view = "closed"
  /\ view' = navigate(path, getDemoSession, getDemoUsers)
  /\ mode' = "signup"
  /\ error' = ""
  /\ UNCHANGED <<demoUsers, demoSession, authCalls, lastAuth, leadVars, tabs>>

\* getDemoUsers' fallback: the stored registry is gone or does not parse,
\* and reads as []
registryLost ==
  /\ view = "closed"
  /\ demoUsers # <<>>
  /\ demoUsers' = <<>>
  /\ UNCHANGED <<demoSession, mode, error, authCalls, lastAuth, view, leadVars, tabs>>

RouteNext ==
  \/ /\ view = "auth"
     /\ \E e \in {AuthEmailLower, AuthEmailOther}, p \in {PasswordP, PasswordW} :
          handleSubmitAuth(AuthNameAn, e, p, "none")
  \/ view = "auth" /\ toggleMode
  \/ view = "dashboard" /\ logout
  \/ closeTab
  \/ \E path \in {"/auth", "/dashboard"} : openPage(path)
  \/ registryLost

RouteSpec == AuthInit /\ [][RouteNext]_vars

\* ------------------------------------------------------------------------
\* Properties of the demo authentication
\* ------------------------------------------------------------------------

\* the step is a call of handleSubmitAuth in signup mode
IsSignUpStep == authCalls' = authCalls + 1 /\ lastAuth'.mode = "signup"

\* the two emails are the same up to case and surrounding whitespace
SameEmail(a, b) == toLowerCase(trim(a)) = toLowerCase(trim(b))

\* C8: a signUp that follows a signUp which created an account, with the
\* same email in another case (and a name and a password that pass the
\* field checks), fails with "Account already exists" and leaves the
\* registry and the session as they were.
C8_SecondSignUpIsDuplicate ==
  [][ ( /\ IsSignUpStep
        /\ lastAuth.mode = "signup" /\ lastAuth.outcome = "ok"
        /\ SameEmail(lastAuth'.email, lastAuth.email)
        /\ Len(trim(lastAuth'.fullName)) >= 2
        /\ trim(lastAuth'.password) # <<>> ) =>
        /\ error' = "Account already exists. Please login."
        /\ demoUsers' = demoUsers
        /\ Len(demoUsers') = Len(demoUsers)
        /\ demoSession' = demoSession ]_vars

\* C8 witness: an account was created for a@x and the next call, a signUp
\* for A@X, was answered with the duplicate error
C8_Witness ==
  /\ authCalls = 2
  /\ Len(demoUsers) = 1
  /\ demoUsers[1].email = <<"a", "@", "x">>
  /\ lastAuth.mode = "signup"
  /\ lastAuth.email = <<"A", "@", "X">>
  /\ error = "Account already exists. Please login."
  /\ demoSession = << <<"a", "@", "x">> >>

\* C9: no two entries of the registry have the same trimmed, lowercased
\* email.
C9_UniqueNormalizedEmail ==
  \A i, j \in 1..Len(demoUsers) :
     i # j => ~SameEmail(demoUsers[i].email, demoUsers[j].email)

\* C9 witness: the registry has two accounts and a third signUp, for an
\* email that differs from a stored one in case only, was turned down
C9_Witness ==
  /\ Len(demoUsers) = 2
  /\ lastAuth.mode = "signup"
  /\ lastAuth.outcome = "exists"
  /\ \E i \in 1..2 : /\ demoUsers[i].email # trim(lastAuth.email)
                     /\ SameEmail(demoUsers[i].email, lastAuth.email)

\* C10: a signUp whose fullName has fewer than 2 characters, or whose email
\* or password is empty, ends with a validation message and writes nothing:
\* the registry and the session pointer keep their values.
C10_InvalidSignUpWritesNothing ==
  [][ ( /\ IsSignUpStep
        /\ \/ Len(lastAuth'.fullName) < 2
           \/ lastAuth'.email = <<>>
           \/ lastAuth'.password = <<>> ) =>
        /\ error' \in {"Email and password are required.",
                       "Please enter your full name."}
        /\ demoUsers' = demoUsers
        /\ demoSession' = demoSession ]_vars

\* C10 witness: with an account registered and logged in, a signUp for a
\* new email with a one-character name was turned down with the name message
C10_Witness ==
  /\ Len(demoUsers) = 1
  /\ demoSession # <<>>
  /\ lastAuth.mode = "signup"
  /\ lastAuth.fullName = <<"A">>
  /\ ~SameEmail(lastAuth.email, demoUsers[1].email)
  /\ error = "Please enter your full name."

\* the step is a call of one of the demo-auth handlers
IsAuthStep == authCalls' = authCalls + 1

\* the signUp of the step passes the field checks and the duplicate check
SignUpPassesChecks ==
  /\ IsSignUpStep
  /\ toLowerCase(trim(lastAuth'.email)) # <<>>
  /\ trim(lastAuth'.password) # <<>>
  /\ Len(trim(lastAuth'.fullName)) >= 2
  /\ \A i \in 1..Len(demoUsers) :
        ~SameEmail(demoUsers[i].email, lastAuth'.email)

\* the account a signUp with the inputs of the step creates
NewDemoUser ==
  [fullName |-> trim(lastAuth'.fullName),
   email |-> toLowerCase(trim(lastAuth'.email)),
   password |-> trim(lastAuth'.password)]

\* every entry of the registry is still there, at its place and unchanged
RegistryKept ==
  /\ Len(demoUsers') >= Len(demoUsers)
  /\ \A i \in 1..Len(demoUsers) : demoUsers'[i] = demoUsers[i]

IsLogInStep == IsAuthStep /\ lastAuth'.mode = "login"

\* the registry entries that match the email of the step, normalized, and
\* its password, trimmed
LogInMatches ==
  {i \in 1..Len(demoUsers) :
     /\ toLowerCase(demoUsers[i].email) = toLowerCase(trim(lastAuth'.email))
     /\ demoUsers[i].password = trim(lastAuth'.password)}

\* the logIn of the step went through: no message, the dashboard requested
LogInSucceeds ==
  /\ lastAuth'.outcome = "ok"
  /\ lastAuth'.navigated = "/dashboard"
  /\ error' = ""

\* the email or the password of the step is empty after trimming
LogInBlank ==
  toLowerCase(trim(lastAuth'.email)) = <<>> \/ trim(lastAuth'.password) = <<>>

IsLogOutStep == IsAuthStep /\ lastAuth'.mode = "logout"

\* C13: a logOut, from a state with or without a session, leaves the
\* session pointer empty, so that there is no current user, and leaves the
\* registry as it was; a logOut without a session changes nothing of the
\* stored state.
C13_LogOutClearsSession ==
  [][ IsLogOutStep =>
        /\ demoSession' = <<>>
        /\ currentUser(demoSession', demoUsers') = <<>>
        /\ demoUsers' = demoUsers
        /\ lastAuth'.outcome = "ok"
        /\ demoSession = <<>> => demoSession' = demoSession ]_vars

\* C13 witness: an account was created, which logged it in; the first
\* logOut cleared the session and the second found none to clear
C13_Witness ==
  /\ authCalls = 3
  /\ Len(demoUsers) = 1
  /\ lastAuth.mode = "logout"
  /\ lastAuth.sessionBefore = <<>>
  /\ lastAuth.usersBefore = demoUsers
  /\ demoSession = <<>>
  /\ view = "auth"

\* C14: the protected view comes on screen only when there is a current
\* user, that is when the session pointer is set and names an email of the
\* registry; otherwise the visit ends on the auth page.
C14_ProtectedViewNeedsCurrentUser ==
  [][ (view # "dashboard" /\ view' = "dashboard") =>
        currentUser(demoSession', demoUsers') # <<>> ]_vars

\* ------------------------------------------------------------------------
\* Properties of the configuration and of the anonymous identity
\* ------------------------------------------------------------------------

\* the last submit went beyond the local archive: it was held back for the
\* identity, or its document was handed to the remote store
WentRemote == lastSubmit.outcome \in {"not-ready", "writing", "succeeded", "failed"}

\* the last submit was a valid one that ended with the local archive alone
StayedLocal ==
  /\ lastSubmit.outcome = "local-only"
  /\ lastSubmit.remoteBefore = remoteLeads
  /\ lastSubmit.fault = "none" => demoLeads # <<>>

\* C15 as stated: when one of the API key, the project identifier, the app
\* identifier and the sender identifier is not configured, nothing is sent
\* to the remote store and valid submits end with the local archive alone.
C15_Original ==
  ~({"apiKey", "projectId", "appId", "messagingSenderId"} \subseteq config) =>
     /\ remoteWrites = 0
     /\ remoteLeads = <<>>
     /\ ~WentRemote

\* C15: the remote path is enabled exactly when the API key, the auth
\* domain and the project identifier are configured. When one of these
\* three is missing nothing is ever sent to the remote store, no identity is
\* requested and a valid submit ends with the local archive alone; when the
\* three are there a valid submit never ends local-only, whether or not the
\* app identifier, the sender identifier or the storage bucket are set.
C15_RemoteEnabledByThreeKeys ==
  /\ ~({"apiKey", "authDomain", "projectId"} \subseteq config) =>
        /\ remoteWrites = 0
        /\ remoteLeads = <<>>
        /\ pendingWrite = <<>>
        /\ authCall = "none"
        /\ user = "null"
        /\ ~WentRemote
        /\ lastSubmit.outcome \notin {"none", "rejected"} => StayedLocal
  /\ {"apiKey", "authDomain", "projectId"} \subseteq config =>
        /\ authCall # "none"
        /\ lastSubmit.outcome \notin {"none", "rejected"} => WentRemote

\* C15 witness: with the app identifier and the sender identifier not
\* configured, a submit was written to the remote store
C15_Witness ==
  /\ config = {"apiKey", "authDomain", "projectId", "storageBucket"}
  /\ lastSubmit.outcome = "succeeded"
  /\ Len(remoteLeads) = 1
  /\ Len(demoLeads) = 1

\* C16: the anonymous identity is created once and read-only afterward: once
\* the SDK holds an identity, and once the form holds one, no step replaces
\* it by another identity or by none.
C16_IdentityReadOnly ==
  [][ /\ user # "null" => user' = user
      /\ authUser # "null" => authUser' = authUser ]_vars

\* C16 witness: the identity uid2 arrived before the first submit and is
\* still the one held after two submits were written under it
C16_Witness ==
  /\ user = "uid2"
  /\ authUser = "uid2"
  /\ authCall = "resolved"
  /\ calls = 2
  /\ Len(remoteLeads) = 2
  /\ \A i \in 1..2 : remoteLeads[i].doc.userId = "uid2"

\* ------------------------------------------------------------------------
\* Properties of the validation
\* ------------------------------------------------------------------------

\* the fields of candidate c that break the stated rules
RuleBreaks(c) ==
  {f \in {"fullName", "email", "phone", "intent"} :
     \/ f = "fullName" /\ Len(c.fullName) < 2
     \/ f = "email" /\ ~IsEmail(c.email)
     \/ f = "phone" /\ Len(c.phone) < 10
     \/ f = "intent" /\ c.intent \notin {"brochure", "enroll"}}

\* C17: the intent of the form is enroll until one is chosen, and each run
\* of the validation accepts the candidate exactly when its fullName has at
\* least 2 characters, its email has the address shape, its phone has at
\* least 10 characters, whatever they are, and its intent is brochure or
\* enroll; otherwise the errors name the fields that break a rule and no
\* other. Of the addresses tried, a@x.co and A@X.CO alone have the shape.
C17_ValidationRules ==
  /\ intentValue = "enroll"
  /\ [][ lastSubmit' # lastSubmit =>
           LET c == lastSubmit'.candidate IN
           /\ errors' = RuleBreaks(c)
           /\ lastSubmit'.outcome = "accepted" <=> RuleBreaks(c) = {}
           /\ lastSubmit'.outcome = "rejected" <=> RuleBreaks(c) # {}
           /\ "email" \in errors' <=>
                c.email \notin {<<"a", "@", "x", ".", "c", "o">>,
                                <<"A", "@", "X", ".", "C", "O">>} ]_vars

\* C17 witness: with no intent chosen, a candidate with a name of two
\* blanks, the address A@X.CO and a phone of ten letters was accepted as an
\* enroll candidate
C17_Witness ==
  /\ lastSubmit.outcome = "accepted"
  /\ lastSubmit.candidate.fullName = <<" ", " ">>
  /\ lastSubmit.candidate.email = <<"A", "@", "X", ".", "C", "O">>
  /\ Len(lastSubmit.candidate.phone) = 10
  /\ lastSubmit.candidate.phone[1] = "a"
  /\ lastSubmit.candidate.intent = "enroll"
  /\ formIntent = "enroll"
  /\ errors = {}

\* ------------------------------------------------------------------------
\* Properties of the course of a submission
\* ------------------------------------------------------------------------

\* the last entry of the archive is the entry of the last submit
ArchivedLast ==
  /\ demoLeads # <<>>
  /\ demoLeads[Len(demoLeads)] = EntryOf(lastSubmit.candidate, lastSubmit.at)
  /\ demoLeads = Append(lastSubmit.leadsBefore, demoLeads[Len(demoLeads)])

\* C18: a validated submit whose local store did not throw has its entry in
\* the local archive from the step that leaves the validation on: when the
\* submission is held back for the identity, when its remote write is
\* issued or in flight, when that write succeeded or failed, and when the
\* remote store is disabled.
C18_ArchivedBeforeRemote ==
  [][ /\ ( /\ lastSubmit'.fault = "none"
            /\ lastSubmit'.outcome \in {"not-ready", "writing", "succeeded",
                                         "failed", "local-only"} ) => ArchivedLast'
      /\ ( /\ lastSubmit'.fault = "none"
            /\ \/ remoteWrites' # remoteWrites
               \/ pendingWrite' # <<>>
               \/ remoteLeads' # remoteLeads ) => ArchivedLast' ]_vars

\* C18 witness: a first submit was held back for the identity and a second
\* failed in transport; both are in the archive and the remote store is
\* empty
C18_Witness ==
  /\ calls = 2
  /\ lastSubmit.outcome = "failed"
  /\ lastSubmit.fault = "none"
  /\ Len(lastSubmit.leadsBefore) = 1
  /\ Len(demoLeads) = 2
  /\ demoLeads[2] = EntryOf(lastSubmit.candidate, lastSubmit.at)
  /\ remoteLeads = <<>>
  /\ remoteWrites = 1

\* the stores a submission writes to, and the writes in flight
SubmissionEffects ==
  <<demoLeads, demoLeadsGlobal, pendingWrite, remoteLeads, remoteWrites>>

\* C19: a submission is rejected by the validation, or is written to the
\* archive and then ends as a local-only success, is held back for the
\* identity, or has its remote write issued, which then succeeds or fails.
\* Only a submit starts a submission and only the completion of its remote
\* write moves it on; a submission that failed, was held back or was
\* rejected stays as it is, with its status and with nothing sent, until the
\* next submit. The arrival of the identity sends nothing.
C19_SubmissionCourse ==
  [][ /\ IsSubmitStep =>
           /\ lastSubmit.outcome # "writing"
           /\ IF MeetsRules(lastSubmit'.candidate)
              THEN lastSubmit'.outcome \in {"local-only", "not-ready", "writing"}
              ELSE lastSubmit'.outcome = "rejected"
           /\ (lastSubmit'.outcome = "local-only") <=>
                (MeetsRules(lastSubmit'.candidate) /\ ~db)
           /\ (lastSubmit'.outcome = "not-ready") <=>
                (MeetsRules(lastSubmit'.candidate) /\ db /\ user = "null")
           /\ lastSubmit'.outcome = "local-only" => enrollmentStatus' = "success"
           /\ lastSubmit'.outcome = "not-ready" => enrollmentStatus' = "idle"
           /\ lastSubmit'.outcome = "writing" => enrollmentStatus' = "loading"
      /\ (~IsSubmitStep /\ lastSubmit' # lastSubmit) =>
           /\ lastSubmit.outcome = "writing"
           /\ lastSubmit'.outcome \in {"succeeded", "failed"}
           /\ lastSubmit' = [lastSubmit EXCEPT !.outcome = lastSubmit'.outcome]
           /\ lastSubmit'.outcome = "succeeded" => enrollmentStatus' = "success"
           /\ lastSubmit'.outcome = "failed" => enrollmentStatus' = "error"
      /\ (~IsSubmitStep /\ lastSubmit.outcome # "writing") =>
           /\ lastSubmit' = lastSubmit
           /\ SubmissionEffects' = SubmissionEffects
      /\ (~IsSubmitStep /\ lastSubmit.outcome \in {"failed", "not-ready", "rejected"}) =>
           enrollmentStatus' = enrollmentStatus
      /\ (user' # user) =>
           /\ lastSubmit' = lastSubmit
           /\ SubmissionEffects' = SubmissionEffects
           /\ enrollmentStatus' = enrollmentStatus ]_vars

\* C19 witness: a submission was held back for the identity; the identity
\* has arrived since, and the submission is still held back: it is in the
\* archive, nothing was sent and the form is idle
C19_Witness ==
  /\ lastSubmit.outcome = "not-ready"
  /\ lastSubmit.user = "null"
  /\ user # "null"
  /\ calls = 1
  /\ Len(demoLeads) = 1
  /\ remoteWrites = 0
  /\ pendingWrite = <<>>
  /\ remoteLeads = <<>>
  /\ enrollmentStatus = "idle"

\* ------------------------------------------------------------------------
\* Local-store failures during the demo authentication
\* ------------------------------------------------------------------------

\* C20: a write to the local store that throws during a demo-auth operation
\* (the registry write of a signUp, the session write of a signUp or a
\* logIn) is swallowed: the operation still completes and takes the user to
\* the dashboard.
C20_AuthStoreFailureSwallowed ==
  [][ (IsAuthStep /\ lastAuth'.fault # "none") =>
        /\ lastAuth'.outcome = "ok"
        /\ lastAuth'.navigated = "/dashboard" ]_vars

\* ------------------------------------------------------------------------
\* Properties of what the form shows
\* ------------------------------------------------------------------------

\* C21: the form container rendered for the status of the form differs from
\* the one that would be rendered, with the same intent and field errors,
\* for each of the other three statuses.
C21_StatusesRenderDistinct ==
  \A s \in {"idle", "loading", "success", "error"} :
     s # enrollmentStatus =>
       formContainer(s, formIntent, errors)
         # formContainer(enrollmentStatus, formIntent, errors)

\* C22: while the anonymous sign-in or a remote write is pending, the status
\* of the form is loading, which is what its button shows.
C22_LoadingWhilePending ==
  (authCall = "pending" \/ pendingWrite # <<>>) =>
     /\ enrollmentStatus = "loading"
     /\ formContainer(enrollmentStatus, formIntent, errors).button.spinner

\* ------------------------------------------------------------------------
\* Properties of the local store shared by two tabs
\* ------------------------------------------------------------------------

\* the entries of the archive that tab t wrote
EntriesOf(t) ==
  {i \in 1..Len(demoLeads) : demoLeads[i].fullName = TabLead(t).fullName}

\* C23: each write replaces the whole archive by what the writing tab had
\* read, plus its entry, whatever was stored since. As long as one tab alone
\* submits, the archive has one entry for each of its completed submits, in
\* order; with two tabs the archive never has more entries of a tab than
\* that tab completed submits (it can have fewer: a lost update).
C23_LastWriteWins ==
  [][ \A t \in Tabs :
        /\ (tabs'[t].appended = tabs[t].appended + 1) =>
             /\ Len(demoLeads') = Len(tabs[t].existing) + 1
             /\ SubSeq(demoLeads', 1, Len(tabs[t].existing)) = tabs[t].existing
             /\ demoLeads'[Len(demoLeads')] = EntryOf(TabLead(t), now)
        /\ Cardinality(EntriesOf(t))' <= tabs'[t].appended
        /\ (\A u \in Tabs \ {t} : tabs'[u].appended = 0 /\ tabs'[u].status = "idle") =>
             Len(demoLeads') = tabs'[t].appended ]_vars

\* C23 witness: each of the two tabs has completed one submit, both are on
\* the success panel, and the archive holds one entry only
C23_Witness ==
  /\ \A t \in Tabs : tabs[t].appended = 1 /\ tabs[t].status = "success"
  /\ Len(demoLeads) = 1

\* ------------------------------------------------------------------------
\* Properties of the session pointer
\* ------------------------------------------------------------------------

\* C24: in one client, whatever signUps, logIns and logOuts were made since
\* the empty store, the session pointer is empty or is the email of exactly
\* one entry of the registry, which is the entry the dashboard's exact-match
\* lookup returns.
C24_SessionNamesRegisteredUser ==
  demoSession # <<>> =>
    /\ Len(demoSession) = 1
    /\ Cardinality({i \in 1..Len(demoUsers) :
                      demoUsers[i].email = demoSession[1]}) = 1
    /\ currentUser(demoSession, demoUsers) # <<>>
    /\ currentUser(demoSession, demoUsers)[1].email = demoSession[1]

\* C24 witness: two accounts were created and the first one, a@x, logged in
\* again as "A@X": the session is the stored a@x, the first of two entries
C24_Witness ==
  /\ Len(demoUsers) = 2
  /\ lastAuth.mode = "login"
  /\ lastAuth.outcome = "ok"
  /\ lastAuth.email = <<"A", "@", "X">>
  /\ lastAuth.sessionBefore = << demoUsers[2].email >>
  /\ demoUsers[1].email = <<"a", "@", "x">>
  /\ demoSession = << <<"a", "@", "x">> >>
  /\ currentUser(demoSession, demoUsers) = <<demoUsers[1]>>

\* ------------------------------------------------------------------------
\* Properties of the success state
\* ------------------------------------------------------------------------

\* C25: while the form shows the success panel, its message is the brochure
\* message exactly when the submission that succeeded had the intent
\* brochure, the intent that decided on the download.
C25_SuccessMessageMatchesIntent ==
  enrollmentStatus = "success" =>
    ( formContainer(enrollmentStatus, formIntent, errors).heading = "Brochure Ready!"
        <=> lastSubmit.candidate.intent = "brochure" )

\* C26: at most one remote write is pending, and only while the status is
\* loading; no submit starts while the status is loading; and the write
\* that completes is the one of the last submit, so that the status it sets
\* is the status of that submission.
C26_OneSubmissionInProgress ==
  [][ /\ Len(pendingWrite') <= 1
      /\ pendingWrite' # <<>> => enrollmentStatus' = "loading"
      /\ enrollmentStatus = "loading" => ~IsSubmitStep
      /\ pendingWrite # <<>> => ~IsSubmitStep
      /\ Len(pendingWrite') < Len(pendingWrite) =>
           /\ calls' = calls
           /\ lastSubmit.outcome = "writing"
           /\ Head(pendingWrite).fullName = lastSubmit.candidate.fullName
           /\ Head(pendingWrite).email = lastSubmit.candidate.email
           /\ Head(pendingWrite).phone = lastSubmit.candidate.phone
           /\ Head(pendingWrite).intent = lastSubmit.candidate.intent
           /\ lastSubmit'.candidate = lastSubmit.candidate ]_vars

\* C26 witness: the remote write of a first submit failed; a second submit
\* was made from the error status and its write is the one in flight
C26_Witness ==
  /\ calls = 2
  /\ remoteWrites = 2
  /\ remoteLeads = <<>>
  /\ lastSubmit.statusBefore = "error"
  /\ lastSubmit.outcome = "writing"
  /\ Len(pendingWrite) = 1
  /\ enrollmentStatus = "loading"

\* C27: whenever the status is success, the remote store is disabled, or
\* the remote write of the last submit has completed: nothing is in flight,
\* the submission did not fail, and the last document of the remote
\* collection carries its fields and the identity it was sent under.
C27_SuccessOnlyByCompletedSubmission ==
  enrollmentStatus = "success" =>
    /\ lastSubmit.violated = {}
    /\ MeetsRules(lastSubmit.candidate)
    /\ \/ ~db /\ lastSubmit.outcome = "local-only"
       \/ /\ db
          /\ lastSubmit.outcome = "succeeded"
          /\ pendingWrite = <<>>
          /\ remoteLeads # <<>>
          /\ remoteLeads = Append(lastSubmit.remoteBefore, remoteLeads[Len(remoteLeads)])
          /\ remoteLeads[Len(remoteLeads)].doc =
               [fullName |-> lastSubmit.candidate.fullName,
                email |-> lastSubmit.candidate.email,
                phone |-> lastSubmit.candidate.phone,
                intent |-> lastSubmit.candidate.intent,
                userId |-> lastSubmit.user]
          /\ lastSubmit.user # "null"
          /\ lastSubmit.user = user

\* C27 witness: with the remote store enabled, a first submit failed in
\* transport and the second was written: the status is success and the
\* collection holds that one document
C27_Witness ==
  /\ db
  /\ enrollmentStatus = "success"
  /\ calls = 2
  /\ remoteWrites = 2
  /\ lastSubmit.statusBefore = "error"
  /\ Len(remoteLeads) = 1
  /\ remoteLeads[1].doc.userId = user

====
